---- MODULE Spec2Model ----
(***************************************************************************)
(* InterviewMate backend: the session orchestration engine of              *)
(* backend/app.py (start_session, submit_response, end_interview,          *)
(* get_feedback) and the helpers of backend/interview_brain.py it calls.   *)
(*                                                                         *)
(* Text is a sequence of tokens.  A token is a word, or one of the         *)
(* characters the code inspects: " " and "\n" (whitespace), "?" (question  *)
(* mark), "|" (mode separator), "-" and the digits, and the marker         *)
(* "[OFFTOPIC]".  Python's None is the one-token text None, a missing      *)
(* dict key the one-token text NoKey; no program text contains them.       *)
(***************************************************************************)
EXTENDS Integers, Sequences, FiniteSets, TLC

\* ---------------------------------------------------------------- bounds
\* Spec follows one session until it holds MaxTurns turns; SpecPair follows two
\* sessions while they hold at most MaxPairTurns turns together.
MaxTurns == 5
MaxPairTurns == 2

\* SpecInterleaved follows two sessions, with fewer inputs, while they hold at
\* most MaxInterleavedTurns turns together.
MaxInterleavedTurns == 4

\* SpecParser parses every model output of at most MaxReplyLen tokens.
MaxReplyLen == 6

\* SpecRetrieval queries every store with top_k up to MaxTopK.
MaxTopK == 5

\* SpecChunker chunks every text of at most MaxWords words with every chunk
\* size up to MaxChunkSize and every smaller overlap.
MaxWords == 30
MaxChunkSize == 14

\* SpecBudget applies compute_max_questions to every mode of at most MaxModeLen tokens.
MaxModeLen == 4

\* SpecChunkerLoop follows the while loop of _chunk_text for at most
\* MaxLoopSteps iterations (more than any text of MaxWords words needs when the
\* window advances).
MaxLoopSteps == 34

\* SpecOverlap lets at most MaxSuspended submit_response calls wait at the
\* transcription await at the same time.
MaxSuspended == 2

\* session identifiers: the opaque tokens uuid4 can hand out, and a token it
\* never hands out, which a caller may still present
SessionIds == {"s1"}
PairIds == {"s1", "s2"}
StrangerId == "s0"

\* ------------------------------------------------------- python values
None == <<"None">>
NoKey == <<"NoKey">>
EmptyText == <<>>

\* bool(x) of an optional string: None and "" are falsy
Truthy(x) == x # None /\ x # NoKey /\ x # EmptyText

\* dict.get(key, default)
DictGet(v, default) == IF v = NoKey THEN default ELSE v

Min(a, b) == IF a <= b THEN a ELSE b

\* ------------------------------------------------------- string helpers
Whitespace == {" ", "\n", "\t"}

IsBlank(s) == \A i \in 1..Len(s) : s[i] \in Whitespace

\* str.strip()
Strip(s) ==
  IF IsBlank(s) THEN <<>>
  ELSE LET lo == CHOOSE i \in 1..Len(s) :
                   s[i] \notin Whitespace /\ \A j \in 1..(i-1) : s[j] \in Whitespace
           hi == CHOOSE i \in 1..Len(s) :
                   s[i] \notin Whitespace /\ \A j \in (i+1)..Len(s) : s[j] \in Whitespace
       IN SubSeq(s, lo, hi)

\* tok in s
Contains(s, tok) == \E i \in 1..Len(s) : s[i] = tok

\* s.startswith(tok)
StartsWith(s, tok) == Len(s) > 0 /\ s[1] = tok

\* s.replace(tok, "")
Remove(s, tok) == SelectSeq(s, LAMBDA t : t # tok)

\* str.split(sep): always at least one part
RECURSIVE Split(_, _)
Split(s, sep) ==
  IF ~Contains(s, sep) THEN <<s>>
  ELSE LET i == CHOOSE k \in 1..Len(s) : s[k] = sep /\ \A j \in 1..(k-1) : s[j] # sep
       IN <<SubSeq(s, 1, i-1)>> \o Split(SubSeq(s, i+1, Len(s)), sep)

\* str.splitlines(): no part for the empty string, none after a final newline
SplitLines(s) ==
  IF s = <<>> THEN <<>>
  ELSE LET parts == Split(s, "\n")
       IN IF parts[Len(parts)] = <<>> THEN SubSeq(parts, 1, Len(parts)-1) ELSE parts

\* sep.join(parts)
RECURSIVE Join(_, _)
Join(parts, sep) ==
  IF parts = <<>> THEN <<>>
  ELSE IF Len(parts) = 1 THEN parts[1]
  ELSE parts[1] \o <<sep>> \o Join(Tail(parts), sep)

\* ------------------------------------------------ compute_max_questions
Digits == <<"0", "1", "2", "3", "4", "5", "6", "7", "8", "9">>
IsDigit(t) == \E i \in 1..Len(Digits) : Digits[i] = t
DigitVal(t) == (CHOOSE i \in 1..Len(Digits) : Digits[i] = t) - 1

RECURSIVE DigitsValue(_)
DigitsValue(s) ==
  IF s = <<>> THEN 0
  ELSE 10 * DigitsValue(SubSeq(s, 1, Len(s)-1)) + DigitVal(s[Len(s)])

\* int(s) succeeds: optional sign, then one or more digits, blanks around
IntOk(s) ==
  LET t == Strip(s)
      body == IF Len(t) > 0 /\ t[1] \in {"-", "+"} THEN Tail(t) ELSE t
  IN Len(body) > 0 /\ \A i \in 1..Len(body) : IsDigit(body[i])

\* int(s), where IntOk(s)
IntValue(s) ==
  LET t == Strip(s)
      neg == Len(t) > 0 /\ t[1] = "-"
      body == IF Len(t) > 0 /\ t[1] \in {"-", "+"} THEN Tail(t) ELSE t
  IN IF neg THEN 0 - DigitsValue(body) ELSE DigitsValue(body)

DefaultBudget == 12
QuickBudget == 6
DetailedBudget == 12
LongBudget == 20

\* a budget that reads the number before the tier names
compute_max_questions_number_first(mode) ==
  IF ~Truthy(mode) THEN DefaultBudget
  ELSE LET parts == Split(mode, "|")
       IN IF Len(parts) > 1 /\ IntOk(parts[2]) THEN IntValue(parts[2])
          ELSE IF Contains(mode, "Quick") THEN QuickBudget
          ELSE IF Contains(mode, "Detailed") THEN DetailedBudget
          ELSE IF Contains(mode, "Long") THEN LongBudget
          ELSE DefaultBudget

compute_max_questions(mode) ==
  IF ~Truthy(mode) THEN DefaultBudget
  ELSE IF Contains(mode, "Quick") THEN QuickBudget
  ELSE IF Contains(mode, "Detailed") THEN DetailedBudget
  ELSE IF Contains(mode, "Long") THEN LongBudget
  ELSE LET parts == Split(mode, "|")
       IN IF Len(parts) > 1 /\ IntOk(parts[2]) THEN IntValue(parts[2])
          ELSE DefaultBudget

\* ----------------------------------------------------------- _chunk_text
\* A text is whether it is the empty string and its number of words W; its
\* words are the positions 0..W-1; a chunk is the slice <<i, j>> = words[i:j].
\* A text made of whitespace only is not empty and has no words.
TextOfWords(W) == [empty |-> W = 0, words |-> W]

BlankText == [empty |-> FALSE, words |-> 0]

ChunkSizeWords == 150
OverlapWords == 30
MinChunkWords == 10

ChunkLen(c) == c[2] - c[1]

\* a loop that advances one word too far and leaves a gap between windows
RECURSIVE ChunkWindowsSkipping(_, _, _, _)
ChunkWindowsSkipping(W, size, overlap, i) ==
  IF i < W
  THEN <<(<<i, Min(i + size, W)>>)>> \o ChunkWindowsSkipping(W, size, overlap, i + size + 1)
  ELSE <<>>

\* the while loop of _chunk_text, from window start i
RECURSIVE ChunkWindows(_, _, _, _)
ChunkWindows(W, size, overlap, i) ==
  IF i < W
  THEN <<(<<i, Min(i + size, W)>>)>> \o ChunkWindows(W, size, overlap, i + (size - overlap))
  ELSE <<>>

\* a filter that keeps the tiny chunks
KeepEveryChunk(c) == TRUE

\* the filter of the last line: len(c.split()) > 10
KeepChunk(c) == ChunkLen(c) > MinChunkWords

_chunk_text(text, size, overlap) ==
  IF text.empty THEN <<>>
  ELSE IF text.words <= size THEN <<(<<0, text.words>>)>>
  ELSE SelectSeq(ChunkWindows(text.words, size, overlap, 0), KeepChunk)

\* ------------------------------------------------------- retrieval store
\* An embedding vector is one integer coordinate drawn from VecVals.
VecVals == {0, 1}

EmptyStore == [built |-> FALSE, vecs |-> <<>>, chunks |-> <<>>, dim |-> 0]

\* build_rag_index once the chunks are embedded
BuiltStore(chunks, vecs) == [built |-> TRUE, vecs |-> vecs, chunks |-> chunks, dim |-> 1]

\* squared Euclidean distance of IndexFlatL2
Dist(q, v) == (q - v) * (q - v)

\* index.search(q, k): the k nearest ids, nearest first, the lower id first on a tie
RECURSIVE Search(_, _, _, _)
Search(vecs, q, k, taken) ==
  IF k <= 0 \/ (1..Len(vecs)) \ taken = {} THEN <<>>
  ELSE LET cand == (1..Len(vecs)) \ taken
           best == CHOOSE i \in cand : \A j \in cand :
                     \/ Dist(q, vecs[i]) < Dist(q, vecs[j])
                     \/ Dist(q, vecs[i]) = Dist(q, vecs[j]) /\ i <= j
       IN <<best>> \o Search(vecs, q, k - 1, taken \cup {best})

\* query_rag needs the embedding service: the store has an index and chunks
QueryEmbeds(store) == store.built /\ store.chunks # <<>>

\* a query that returns the first chunks in stored order
query_rag_in_stored_order(store, q, top_k) ==
  IF ~QueryEmbeds(store) THEN <<>>
  ELSE SubSeq(store.chunks, 1, Min(top_k, Len(store.chunks)))

\* query_rag, given the query's embedding q
query_rag(store, q, top_k) ==
  IF ~QueryEmbeds(store) THEN <<>>
  ELSE LET ids == Search(store.vecs, q, Min(top_k, Len(store.chunks)), {})
       IN [n \in 1..Len(ids) |-> store.chunks[ids[n]]]

SubmitTopK == 4

\* --------------------------------------------------- detect_hesitation
HesitationWords == {"um", "uh", "umm", "well", "maybe", "i think", "not sure",
                    "kind of", "sort of", "i guess", "perhaps"}

detect_hesitation(text) ==
  IF text = <<>> \/ Strip(text) = <<>> THEN TRUE
  ELSE \E i \in 1..Len(text) : text[i] \in HesitationWords

\* ------------------------------------------- parse_llm_two_line_response
Marker == "[OFFTOPIC]"

NonEmptyLines(text) ==
  LET raw == SplitLines(Strip(text))
      stripped == [n \in 1..Len(raw) |-> Strip(raw[n])]
  IN SelectSeq(stripped, LAMBDA ln : ln # <<>>)

\* a parser that keeps the first line with a question mark instead of the last
parse_first_question_line(text) ==
  IF ~Truthy(text) THEN <<(<<>>), (<<>>)>>
  ELSE LET lines == NonEmptyLines(text)
       IN IF lines = <<>> THEN <<(<<>>), (<<>>)>>
          ELSE IF Len(lines) = 1 THEN <<(<<>>), lines[1]>>
          ELSE LET qs == {n \in 2..Len(lines) : Contains(lines[n], "?")}
                   follow == IF qs = {} THEN lines[2]
                             ELSE lines[CHOOSE n \in qs : \A m \in qs : n <= m]
               IN <<lines[1], follow>>

\* the pair <<evaluation, follow-up>>
parse_llm_two_line_response(text) ==
  IF ~Truthy(text) THEN <<(<<>>), (<<>>)>>
  ELSE LET lines == NonEmptyLines(text)
       IN IF lines = <<>> THEN <<(<<>>), (<<>>)>>
          ELSE IF Len(lines) = 1 THEN <<(<<>>), lines[1]>>
          ELSE LET qs == {n \in 2..Len(lines) : Contains(lines[n], "?")}
                   follow == IF qs = {} THEN lines[2]
                             ELSE lines[CHOOSE n \in qs : \A m \in qs : m <= n]
               IN <<lines[1], follow>>

\* ------------------------------------------------ choose_fallback_followup
FALLBACKS == <<
  <<"Can you provide a concrete example related to this job requirement", "?">>,
  <<"Can you briefly quantify the impact of your action", "?">>,
  <<"Could you explain one technical decision in more detail", "?">> >>

FallbackEvaluation == <<"Short evaluation not available due to model error.">>

RepeatRequest == <<"I didn't catch that - could you please repeat your answer", "?">>

FeedbackFailed == <<"Feedback generation failed. Try again later.">>

FeedbackPending == <<"Feedback is being generated.">>

FeedbackGenerating == <<"Generating... Please check back.">>

\* ------------------------------------------------------------ transcribe
\* " ".join(seg.text.strip() for seg in segments if seg.text.strip())
transcribe(segments) ==
  LET stripped == [n \in 1..Len(segments) |-> Strip(segments[n])]
  IN Join(SelectSeq(stripped, LAMBDA t : t # <<>>), " ")

\* -------------------------------------------------------- call_openai_llm
\* An outcome of the completion service: ok with the raw content, or a failure
\* (pick is the index random.choice draws when the caller falls back).
LlmOk(raw) == [ok |-> TRUE, raw |-> raw, pick |-> 1]
LlmFail(pick) == [ok |-> FALSE, raw |-> <<>>, pick |-> pick]

\* the text call_openai_llm returns when the service answers
call_openai_llm(outcome) == Strip(outcome.raw)

\* feedback generation that lets the failure through: nothing is stored
generate_feedback_unguarded(outcome) ==
  IF outcome.ok THEN call_openai_llm(outcome) ELSE None

generate_feedback_for_session(outcome) ==
  IF outcome.ok THEN call_openai_llm(outcome) ELSE FeedbackFailed

\* ----------------------------------------------------------- the session
Turn(speaker, text) == [speaker |-> speaker, text |-> text]

\* start_session: the session as registered before any service is called
NewSession(mode) ==
  [mode |-> mode, history |-> <<>>, questions_asked |-> 0,
   status |-> "in_progress", feedback |-> None, current_question |-> NoKey]

\* a start that records the first question but not the count
FirstTurnUncounted(session, first_question) ==
  [session EXCEPT !.history = Append(@, Turn("Interviewer", first_question)),
                  !.current_question = first_question]

\* start_session: store the first interviewer message
FirstTurn(session, first_question) ==
  [session EXCEPT !.history = Append(@, Turn("Interviewer", first_question)),
                  !.questions_asked = 1,
                  !.current_question = first_question]

\* an emptiness test that only catches a missing text
NoAnswerOnlyNone(user_text) == user_text = None

\* submit_response step 1: nothing was transcribed
NoAnswer(user_text) == ~Truthy(user_text)

\* submit_response step 2
AppendUser(session, user_text) ==
  [session EXCEPT !.history = Append(@, Turn("User", user_text))]

\* submit_response step 8: the flag, and the evaluation as displayed
IsOffTopic(evaluation) == StartsWith(Strip(evaluation), Marker)

DisplayEvaluation(evaluation) ==
  IF IsOffTopic(evaluation) THEN Strip(Remove(evaluation, Marker)) ELSE evaluation

\* a turn update that counts the question but drops the interviewer turn
RecordTurnNoReply(session, full_response, new_question, offtopic) ==
  IF ~offtopic
  THEN [session EXCEPT !.questions_asked = @ + 1,
                       !.current_question = new_question]
  ELSE [session EXCEPT !.history = Append(@, Turn("Interviewer", full_response)),
                       !.current_question = new_question]

\* submit_response step 9
RecordTurn(session, full_response, new_question, offtopic) ==
  IF ~offtopic
  THEN [session EXCEPT !.history = Append(@, Turn("Interviewer", full_response)),
                       !.questions_asked = @ + 1,
                       !.current_question = new_question]
  ELSE [session EXCEPT !.history = Append(@, Turn("Interviewer", full_response)),
                       !.current_question = new_question]

\* a limit test that is off by one
ReachedLimitStrict(session) ==
  session.questions_asked > compute_max_questions(DictGet(session.mode, <<>>))

\* submit_response steps 10-11: the limit test
ReachedLimit(session) ==
  session.questions_asked >= compute_max_questions(DictGet(session.mode, <<>>))

\* an ending that stores the feedback but forgets the status
FinishFeedbackOnly(session, feedback_text) ==
  [session EXCEPT !.feedback = feedback_text]

\* status = finished, then the generated feedback is stored
Finish(session, feedback_text) ==
  [session EXCEPT !.status = "finished", !.feedback = feedback_text]

\* end_interview: the early return
FeedbackAlreadyGenerated(session) ==
  session.status = "finished" /\ Truthy(session.feedback)

\* ----------------------------------------------------------------- inputs
Modes == { <<"Custom", "|", "1">>, <<"Custom", "|", "3">> }

\* a job description: its word count, given as text or as the path of a file
JDInputs == [words : {0, 5}, isFile : BOOLEAN]

FirstQuestionReplies == { <<" ", "Tell me about a project from this role", "?">> }

TurnReplies ==
  { <<"Eval line.", "\n", "What did you build", "?", "\n">>,
    <<Marker, " ", "Irrelevant.", "\n", "Can you relate that to the role", "?">>,
    <<"\n">> }

FeedbackReplies == { <<"<b>Overall Score</b>", " ", "6/10">>, <<" ">> }

\* what whisper hears: the segments of one recording
Recordings == { <<>>, <<(<<" ">>)>>, <<(<<" ", "I built the billing service">>)>> }

\* the outcomes of one completion call; a failure draws no fallback
LlmOutcomes(replies) == {LlmOk(r) : r \in replies} \cup {LlmFail(1)}

\* the outcomes of the turn's completion call; on a failure random.choice
\* draws one of the FALLBACKS
TurnOutcomes(replies, picks) ==
  {LlmOk(r) : r \in replies} \cup {LlmFail(i) : i \in picks}

\* what the callers and the services may send: every input listed above;
\* transcribes tells whether whisper may raise, strangers are the identifiers
\* presented that no session holds
Inputs ==
  [modes |-> Modes, jds |-> JDInputs, recordings |-> Recordings,
   firstReplies |-> FirstQuestionReplies, turnReplies |-> TurnReplies,
   feedbackReplies |-> FeedbackReplies, picks |-> 1..Len(FALLBACKS),
   transcribes |-> BOOLEAN, strangers |-> {StrangerId}]

\* fewer inputs, for runs that follow two sessions further: one mode with
\* budget 3, a job description given as text, an on-topic and an off-topic
\* reply, one fallback question
FewInputs ==
  [modes |-> {<<"Custom", "|", "3">>},
   jds |-> {[words |-> 5, isFile |-> FALSE]},
   recordings |-> {<<(<<" ">>)>>, <<(<<" ", "I built the billing service">>)>>},
   firstReplies |-> FirstQuestionReplies,
   turnReplies |-> {<<"Eval line.", "\n", "What did you build", "?", "\n">>,
                    <<Marker, " ", "Irrelevant.", "\n", "Can you relate that to the role", "?">>},
   feedbackReplies |-> {<<"<b>Overall Score</b>", " ", "6/10">>},
   picks |-> {1},
   transcribes |-> BOOLEAN, strangers |-> {StrangerId}]

\* ------------------------------------------------------------------ state
VARIABLES SESSIONS, RAG_STORE, resp, ext, failed, suspended

vars == <<SESSIONS, RAG_STORE, resp, ext, failed, suspended>>

\* resp is the last call's response: the endpoint, the session id of the call,
\* the HTTP status and the JSON body.  ext lists the external services the
\* last call invoked, in order; failed lists the service calls that raised.
\* suspended counts, per session, the submit_response calls that passed the
\* finished test and wait at the transcription await.
Resp(op, sid, code, body) == [op |-> op, sid |-> sid, code |-> code, body |-> body]

\* an unknown identifier answered as if it were known
NotFoundAnswersOk(op, sid, detail) == Resp(op, sid, 200, [detail |-> detail])

\* raise HTTPException(status_code=404, detail=...)
NotFound(op, sid, detail) == Resp(op, sid, 404, [detail |-> detail])

Init ==
  /\ SESSIONS = <<>>
  /\ RAG_STORE = <<>>
  /\ resp = Resp("none", "none", 0, [none |-> TRUE])
  /\ ext = <<>>
  /\ failed = <<>>
  /\ suspended = <<>>

\* the turns held by all sessions together, bounded by MaxTurns
RECURSIVE TurnsOf(_, _)
TurnsOf(sessions, ids) ==
  IF ids = {} THEN 0
  ELSE LET i == CHOOSE i \in ids : TRUE
       IN Len(sessions[i].history) + TurnsOf(sessions, ids \ {i})

TotalTurns == TurnsOf(SESSIONS, DOMAIN SESSIONS)

\* --------------------------------------------------------- start_session
\* build_rag_index / build_rag_index_from_file inside the try of start_session:
\* the text that reaches the chunker (a file that cannot be read gives "")
JDWordCount(jd, readOk) == IF jd.isFile /\ ~readOk THEN 0 ELSE jd.words

JDChunks(jd, readOk) ==
  _chunk_text(TextOfWords(JDWordCount(jd, readOk)), ChunkSizeWords, OverlapWords)

\* the store start_session leaves: empty when there are no chunks or when the
\* embedding call raised (the except branch rebuilds from "")
StoreAfterBuild(chunks, embOk, vecs) ==
  IF chunks = <<>> \/ ~embOk THEN EmptyStore ELSE BuiltStore(chunks, vecs)

\* a start that may hand out an identifier already in the table
ReusedIds(ids) == ids

\* a write that lands in every session of the table
PutSessionEverywhere(sessions, sid, session) ==
  [id \in DOMAIN sessions |-> session]

\* SESSIONS[session_id] = session
PutSession(sessions, sid, session) ==
  [sessions EXCEPT ![sid] = session]

\* uuid.uuid4(): an identifier no session holds
FreshIds(ids) == ids \ DOMAIN SESSIONS

start_session(ids, maxTurns, in) ==
  \E sid \in FreshIds(ids), mode \in in.modes, jd \in in.jds :
   /\ TotalTurns + 1 <= maxTurns
   /\ UNCHANGED suspended
   /\ \E readOk \in (IF jd.isFile THEN BOOLEAN ELSE {TRUE}) :
    LET chunks == JDChunks(jd, readOk)
        session == NewSession(mode)
        buildExt == IF chunks = <<>> THEN <<>> ELSE <<"embed">>
    IN \E embOk \in (IF chunks = <<>> THEN {TRUE} ELSE BOOLEAN) :
       \E vecs \in (IF embOk THEN [1..Len(chunks) -> VecVals] ELSE {<<>>}) :
       LET store == StoreAfterBuild(chunks, embOk, vecs)
           queryExt == IF QueryEmbeds(store) THEN <<"embed">> ELSE <<>>
           buildFailed == IF embOk THEN <<>> ELSE <<"embed_build">>
       IN /\ RAG_STORE' = (sid :> store) @@ RAG_STORE
          /\ \E qOk \in (IF QueryEmbeds(store) THEN BOOLEAN ELSE {TRUE}) :
             \E llm \in (IF qOk THEN LlmOutcomes(in.firstReplies) ELSE {LlmFail(1)}) :
               IF QueryEmbeds(store) /\ ~qOk
               THEN \* query_rag raised: the handler ends with the session registered
                    /\ SESSIONS' = (sid :> session) @@ SESSIONS
                    /\ resp' = Resp("start", sid, 500, [detail |-> "Internal Server Error"])
                    /\ ext' = buildExt \o queryExt
                    /\ failed' = buildFailed \o <<"embed_query">>
               ELSE IF ~llm.ok
               THEN /\ SESSIONS' = (sid :> session) @@ SESSIONS
                    /\ resp' = Resp("start", sid, 500,
                                    [detail |-> "Failed to get first question from OpenAI API."])
                    /\ ext' = buildExt \o queryExt \o <<"llm">>
                    /\ failed' = buildFailed \o <<"llm">>
               ELSE LET first_question == call_openai_llm(llm)
                        started == FirstTurn(session, first_question)
                    IN /\ SESSIONS' = (sid :> started) @@ SESSIONS
                       /\ resp' = Resp("start", sid, 200,
                                       [session_id |-> sid,
                                        first_question |-> first_question,
                                        status |-> "in_progress",
                                        current_q_count |-> started.questions_asked])
                       /\ ext' = buildExt \o queryExt \o <<"llm">>
                       /\ failed' = buildFailed

\* ---------------------------------------------------------- end_interview
end_interview(ids, in) ==
  \E sid \in ids \cup {StrangerId} :
   /\ UNCHANGED suspended
   /\ IF sid \notin DOMAIN SESSIONS
    THEN /\ resp' = NotFound("end", sid, "Interview session not found.")
         /\ ext' = <<>>
         /\ failed' = <<>>
         /\ UNCHANGED <<SESSIONS, RAG_STORE>>
    ELSE LET session == SESSIONS[sid] IN
      IF FeedbackAlreadyGenerated(session)
      THEN /\ resp' = Resp("end", sid, 200,
                           [status |-> "finished", message |-> "Feedback already generated.",
                            session_id |-> sid])
           /\ ext' = <<>>
           /\ failed' = <<>>
           /\ UNCHANGED <<SESSIONS, RAG_STORE>>
      ELSE \E fb \in LlmOutcomes(in.feedbackReplies) :
             LET feedback_text == generate_feedback_for_session(fb)
             IN /\ SESSIONS' = PutSession(SESSIONS, sid, Finish(session, feedback_text))
                /\ resp' = Resp("end", sid, 200,
                                [status |-> "finished", message |-> "Feedback generated.",
                                 session_id |-> sid, feedback |-> feedback_text])
                /\ ext' = <<"llm">>
                /\ failed' = (IF fb.ok THEN <<>> ELSE <<"llm_feedback">>)
                /\ UNCHANGED RAG_STORE

\* ----------------------------------------------------------- get_feedback
get_feedback(ids) ==
  \E sid \in ids \cup {StrangerId} :
    /\ ext' = <<>>
    /\ failed' = <<>>
    /\ UNCHANGED <<SESSIONS, RAG_STORE, suspended>>
    /\ IF sid \notin DOMAIN SESSIONS
       THEN resp' = NotFound("get_feedback", sid, "Not found.")
       ELSE LET fb == SESSIONS[sid].feedback
            IN resp' = Resp("get_feedback", sid, 200,
                            [feedback |-> IF Truthy(fb) THEN fb ELSE FeedbackGenerating])

\* -------------------------------------------------------- submit_response
\* a turn whose completion failure leaves no text at all
FullResponseNoFallback(llm) ==
  IF llm.ok THEN call_openai_llm(llm) ELSE EmptyText

\* step 5: the completion text, or the fallback text when the call failed
FullResponse(llm) ==
  IF llm.ok THEN call_openai_llm(llm)
  ELSE FallbackEvaluation \o <<"\n">> \o FALLBACKS[llm.pick]

\* step 6: <<evaluation, followup_question, new_question>>
ParsedTurn(full_response, parsed) ==
  IF full_response # <<>>
  THEN <<parsed[1], parsed[2], parsed[2]>>
  ELSE <<EmptyText, None, None>>

\* step 7: the embedding calls of compute_confidence_score (their failures are caught)
ConfidenceExt(jd_chunks) == <<"embed">> \o (IF jd_chunks # <<>> THEN <<"embed">> ELSE <<>>)

\* the outcomes of those calls: the answer's embedding, then the chunks' embedding
ConfidenceOutcomes(jd_chunks) ==
  [user : BOOLEAN, jd : IF jd_chunks # <<>> THEN BOOLEAN ELSE {TRUE}]

ConfidenceFailed(conf) ==
  IF conf.user /\ conf.jd THEN <<>> ELSE <<"embed_confidence">>

\* the body of the turn's response
TurnBody(user_text, full_response, turn, offtopic, updated) ==
  [user_text |-> user_text,
   evaluation |-> DisplayEvaluation(turn[1]),
   followup_question |-> turn[2],
   new_question |-> turn[3],
   full_response |-> full_response,
   current_q_count |-> updated.questions_asked,
   feedback_ready |-> FALSE,
   offtopic |-> offtopic,
   hesitation_flag |-> detect_hesitation(user_text)]

\* the body of the response that ends the interview
FinalBody(body, feedback_text) ==
  [user_text |-> body.user_text,
   evaluation |-> body.evaluation,
   followup_question |-> body.followup_question,
   new_question |-> None,
   full_response |-> body.full_response,
   current_q_count |-> body.current_q_count,
   feedback_ready |-> TRUE,
   feedback |-> feedback_text,
   offtopic |-> body.offtopic,
   hesitation_flag |-> body.hesitation_flag]

\* steps 9-13, with the turn parsed and flagged
ApplyTurn(sid, updated, body, turnExt, turnFailed, in) ==
  IF ReachedLimit(updated)
  THEN \E fb \in LlmOutcomes(in.feedbackReplies) :
       \E feedback_text \in {generate_feedback_for_session(fb)} :
         /\ SESSIONS' = PutSession(SESSIONS, sid, Finish(updated, feedback_text))
         /\ resp' = Resp("submit", sid, 200, FinalBody(body, feedback_text))
         /\ ext' = turnExt \o <<"llm">>
         /\ failed' = turnFailed \o (IF fb.ok THEN <<>> ELSE <<"llm_feedback">>)
  ELSE /\ SESSIONS' = PutSession(SESSIONS, sid, updated)
       /\ resp' = Resp("submit", sid, 200, body)
       /\ ext' = turnExt
       /\ failed' = turnFailed

\* steps 2-13 for a non-empty answer, once query_rag has returned jd_chunks
SubmitTurn(sid, session, user_text, jd_chunks, queryExt, in) ==
  \E llm \in TurnOutcomes(in.turnReplies, in.picks), conf \in ConfidenceOutcomes(jd_chunks) :
  \E full_response \in {FullResponse(llm)} :
  \E turn \in {ParsedTurn(full_response, parse_llm_two_line_response(full_response))} :
  \E offtopic \in {IsOffTopic(turn[1])} :
  \E updated \in {RecordTurn(AppendUser(session, user_text), full_response, turn[3], offtopic)} :
    ApplyTurn(sid, updated,
              TurnBody(user_text, full_response, turn, offtopic, updated),
              <<"transcribe">> \o queryExt \o <<"llm">> \o ConfidenceExt(jd_chunks),
              (IF llm.ok THEN <<>> ELSE <<"llm">>) \o ConfidenceFailed(conf), in)

\* an answer to a finished session that always reports the feedback as pending
FinishedBodyPending(session) ==
  [feedback_ready |-> TRUE, feedback |-> FeedbackPending]

\* the body returned for a session that is already finished
FinishedBody(session) ==
  [feedback_ready |-> TRUE, feedback |-> DictGet(session.feedback, FeedbackPending)]

\* submit_response from the transcription await to the return
SubmitAfterAwait(sid, session, maxTurns, in) ==
  \E recording \in in.recordings, trOk \in in.transcribes :
    IF ~trOk
    THEN \* whisper raised
         /\ resp' = Resp("submit", sid, 500, [detail |-> "Internal Server Error"])
         /\ ext' = <<"transcribe">>
         /\ failed' = <<"transcribe">>
         /\ UNCHANGED SESSIONS
    ELSE LET user_text == Strip(transcribe(recording)) IN
      IF NoAnswer(user_text)
      THEN /\ resp' = Resp("submit", sid, 200,
                           [user_text |-> EmptyText,
                            evaluation |-> EmptyText,
                            followup_question |-> RepeatRequest,
                            new_question |-> DictGet(session.current_question, EmptyText),
                            full_response |-> EmptyText,
                            current_q_count |-> session.questions_asked,
                            feedback_ready |-> FALSE,
                            offtopic |-> FALSE,
                            hesitation_flag |-> TRUE])
           /\ ext' = <<"transcribe">>
           /\ failed' = <<>>
           /\ UNCHANGED SESSIONS
      ELSE /\ TotalTurns + 2 <= maxTurns
           /\ LET store == RAG_STORE[sid]
                  queryExt == IF QueryEmbeds(store) THEN <<"embed">> ELSE <<>>
              IN \E qOk \in (IF QueryEmbeds(store) THEN BOOLEAN ELSE {TRUE}) :
                 \E q \in (IF QueryEmbeds(store) /\ qOk THEN VecVals ELSE {0}) :
                   IF QueryEmbeds(store) /\ ~qOk
                   THEN \* query_rag raised after the answer was appended
                        /\ SESSIONS' = PutSession(SESSIONS, sid, AppendUser(session, user_text))
                        /\ resp' = Resp("submit", sid, 500, [detail |-> "Internal Server Error"])
                        /\ ext' = <<"transcribe">> \o queryExt
                        /\ failed' = <<"embed_query">>
                   ELSE SubmitTurn(sid, session, user_text,
                                   query_rag(store, q, SubmitTopK), queryExt, in)

\* the whole handler, for a call that no other call overlaps
submit_response(ids, maxTurns, in) ==
  \E sid \in ids \cup in.strangers :
    /\ UNCHANGED <<RAG_STORE, suspended>>
    /\ IF sid \notin DOMAIN SESSIONS
       THEN /\ resp' = NotFound("submit", sid, "Session not found.")
            /\ ext' = <<>>
            /\ failed' = <<>>
            /\ UNCHANGED SESSIONS
       ELSE LET session == SESSIONS[sid] IN
         IF session.status = "finished"
         THEN /\ resp' = Resp("submit", sid, 200, FinishedBody(session))
              /\ ext' = <<>>
              /\ failed' = <<>>
              /\ UNCHANGED SESSIONS
         ELSE SubmitAfterAwait(sid, session, maxTurns, in)

Next ==
  \/ start_session(SessionIds, MaxTurns, Inputs)
  \/ submit_response(SessionIds, MaxTurns, Inputs)
  \/ end_interview(SessionIds, Inputs)
  \/ get_feedback(SessionIds)

Spec == Init /\ [][Next]_vars

NextPair ==
  \/ start_session(PairIds, MaxPairTurns, Inputs)
  \/ submit_response(PairIds, MaxPairTurns, Inputs)
  \/ end_interview(PairIds, Inputs)
  \/ get_feedback(PairIds)

SpecPair == Init /\ [][NextPair]_vars

\* one session under the modes whose budget is 2, 1, 0 and -1
SmallBudgetModes ==
  { <<"Custom", "|", "2">>, <<"Custom", "|", "1">>,
    <<"Custom", "|", "0">>, <<"Custom", "|", "-", "1">> }

SmallBudgetInputs == [Inputs EXCEPT !.modes = SmallBudgetModes]

NextSmallBudget ==
  \/ start_session(SessionIds, MaxTurns, SmallBudgetInputs)
  \/ submit_response(SessionIds, MaxTurns, SmallBudgetInputs)
  \/ end_interview(SessionIds, SmallBudgetInputs)
  \/ get_feedback(SessionIds)

SpecSmallBudget == Init /\ [][NextSmallBudget]_vars

\* a caller that keeps answering: every recording holds words, whisper does
\* not raise, every completion that succeeds is an on-topic reply, and no
\* unknown identifier is presented; the job description is empty or one chunk;
\* the completion and embedding services may fail on any call
AnswerInputs ==
  [modes |-> {<<"Custom", "|", "3">>},
   jds |-> {[words |-> 0, isFile |-> FALSE], [words |-> 5, isFile |-> FALSE]},
   recordings |-> {<<(<<" ", "I built the billing service">>)>>},
   firstReplies |-> FirstQuestionReplies,
   turnReplies |-> {<<"Eval line.", "\n", "What did you build", "?", "\n">>},
   feedbackReplies |-> {<<"<b>Overall Score</b>", " ", "6/10">>},
   picks |-> {1},
   transcribes |-> {TRUE}, strangers |-> {}]

NextAnswers ==
  \/ start_session(SessionIds, MaxTurns, AnswerInputs)
  \/ submit_response(SessionIds, MaxTurns, AnswerInputs)

\* answers keep being submitted: a submit that can be made is made
FairSpecAnswers ==
  /\ Init /\ [][NextAnswers]_vars
  /\ WF_vars(submit_response(SessionIds, MaxTurns, AnswerInputs))

\* ------------------------------------------- submit_response calls that overlap
\* submit_response is a coroutine: it runs without interruption up to the await
\* of the transcription, where other calls may run, and again from there to
\* its return (the completion and embedding calls block the event loop).
\* one more call of this session waits at the await
Suspend(table, sid) ==
  IF sid \in DOMAIN table THEN [table EXCEPT ![sid] = @ + 1] ELSE (sid :> 1) @@ table

\* one of the waiting calls of this session goes on
Resume(table, sid) ==
  IF table[sid] = 1 THEN [id \in (DOMAIN table) \ {sid} |-> table[id]]
  ELSE [table EXCEPT ![sid] = @ - 1]

RECURSIVE Waiting(_, _)
Waiting(table, ids) ==
  IF ids = {} THEN 0
  ELSE LET i == CHOOSE i \in ids : TRUE
       IN table[i] + Waiting(table, ids \ {i})

\* from the entry to the await: the not-found test, the finished test
submit_response_enter(ids, in) ==
  \E sid \in ids \cup in.strangers :
    /\ UNCHANGED RAG_STORE
    /\ IF sid \notin DOMAIN SESSIONS
       THEN /\ resp' = NotFound("submit", sid, "Session not found.")
            /\ ext' = <<>>
            /\ failed' = <<>>
            /\ UNCHANGED <<SESSIONS, suspended>>
       ELSE IF SESSIONS[sid].status = "finished"
       THEN /\ resp' = Resp("submit", sid, 200, FinishedBody(SESSIONS[sid]))
            /\ ext' = <<>>
            /\ failed' = <<>>
            /\ UNCHANGED <<SESSIONS, suspended>>
       ELSE /\ Waiting(suspended, DOMAIN suspended) < MaxSuspended
            /\ suspended' = Suspend(suspended, sid)
            /\ UNCHANGED <<SESSIONS, resp, ext, failed>>

\* from the await to the return; session is the dict the call looked up at its
\* entry, which is still the one in SESSIONS
submit_response_resume(maxTurns, in) ==
  \E sid \in DOMAIN suspended :
    /\ suspended' = Resume(suspended, sid)
    /\ UNCHANGED RAG_STORE
    /\ SubmitAfterAwait(sid, SESSIONS[sid], maxTurns, in)

\* a session with budget 2, an on-topic and an off-topic reply
OverlapInputs == [FewInputs EXCEPT !.modes = {<<"Custom", "|", "2">>}]

NextOverlap ==
  \/ start_session(SessionIds, MaxTurns, OverlapInputs)
  \/ submit_response_enter(SessionIds, OverlapInputs)
  \/ submit_response_resume(MaxTurns, OverlapInputs)
  \/ end_interview(SessionIds, OverlapInputs)
  \/ get_feedback(SessionIds)

SpecOverlap == Init /\ [][NextOverlap]_vars

\* two sessions followed until both have been answered, with fewer inputs
NextInterleaved ==
  \/ start_session(PairIds, MaxInterleavedTurns, FewInputs)
  \/ submit_response(PairIds, MaxInterleavedTurns, FewInputs)
  \/ end_interview(PairIds, FewInputs)
  \/ get_feedback(PairIds)

SpecInterleaved == Init /\ [][NextInterleaved]_vars

\* --------------------------------------------------- functions on their own
\* A call of a function of the code: resp holds the arguments (code 0), then
\* the arguments and the result (code 200).  No session exists.
Call(fn, args) == Resp(fn, "none", 0, args)

Return(fn, answer) == Resp(fn, "none", 200, answer)

NoSessions ==
  /\ SESSIONS = <<>>
  /\ RAG_STORE = <<>>
  /\ ext = <<>>
  /\ failed = <<>>
  /\ suspended = <<>>

\* all texts of at most n tokens drawn from toks
TextsUpTo(toks, n) == UNION {[1..k -> toks] : k \in 0..n}

\* the mode strings: tier names, another name, the separator, digits, a sign, a letter
ModeTokens == {"Quick", "Detailed", "Long", "Custom", "|", "1", "0", "7", "-", "x"}

ModeInputs == TextsUpTo(ModeTokens, MaxModeLen) \cup {None}

InitBudget ==
  /\ NoSessions
  /\ resp \in {Call("compute_max_questions", [mode |-> m]) : m \in ModeInputs}

apply_compute_max_questions ==
  /\ resp.op = "compute_max_questions" /\ resp.code = 0
  /\ resp' = Return("compute_max_questions",
                     [mode |-> resp.body.mode,
                      result |-> compute_max_questions(resp.body.mode)])
  /\ UNCHANGED <<SESSIONS, RAG_STORE, ext, failed, suspended>>

SpecBudget == InitBudget /\ [][apply_compute_max_questions]_vars

\* RAG_STORE.get(session_id): a missing entry answers like the empty placeholder
StoreOf(table, sid) == IF sid \in DOMAIN table THEN table[sid] ELSE EmptyStore

\* job descriptions of 0, 1, 2, 3 and 4 chunks; coordinates of their embeddings
RetrievalJDWords == {0, 5, 200, 300, 400}

RetrievalVecVals == 0..2

\* the stores build_rag_index can leave for one session, and no entry at all
RetrievalStores ==
  {<<>>} \cup
  UNION {LET chunks == _chunk_text(TextOfWords(W), ChunkSizeWords, OverlapWords)
         IN {("s1" :> StoreAfterBuild(chunks, TRUE, vecs)) :
                vecs \in [1..Len(chunks) -> RetrievalVecVals]} : W \in RetrievalJDWords}

InitRetrieval ==
  /\ SESSIONS = <<>>
  /\ ext = <<>>
  /\ failed = <<>>
  /\ suspended = <<>>
  /\ RAG_STORE \in RetrievalStores
  /\ resp \in {Call("query_rag", [q |-> q, top_k |-> k]) :
                  q \in RetrievalVecVals, k \in 1..MaxTopK}

\* query_rag("s1", query, top_k), q being the embedding of the query
apply_query_rag ==
  /\ resp.op = "query_rag" /\ resp.code = 0
  /\ UNCHANGED <<SESSIONS, RAG_STORE, suspended>>
  /\ \E store \in {StoreOf(RAG_STORE, "s1")} :
     \E qOk \in (IF QueryEmbeds(store) THEN BOOLEAN ELSE {TRUE}) :
       /\ ext' = (IF QueryEmbeds(store) THEN <<"embed">> ELSE <<>>)
       /\ failed' = (IF qOk THEN <<>> ELSE <<"embed_query">>)
       /\ resp' = IF qOk
                  THEN Return("query_rag",
                              [q |-> resp.body.q, top_k |-> resp.body.top_k,
                               result |-> query_rag(store, resp.body.q, resp.body.top_k)])
                  ELSE Resp("query_rag", "none", 500, [detail |-> "Internal Server Error"])

SpecRetrieval == InitRetrieval /\ [][apply_query_rag]_vars

\* the calls of the chunker: short texts under every small configuration, and
\* job descriptions under the configuration build_rag_index uses
ChunkerInputs ==
  {[text |-> t, size |-> size, overlap |-> overlap] :
      t \in {TextOfWords(W) : W \in 0..MaxWords} \cup {BlankText},
      size \in 1..MaxChunkSize, overlap \in 0..(MaxChunkSize - 1)}
  \cup {[text |-> TextOfWords(W), size |-> ChunkSizeWords, overlap |-> OverlapWords] :
          W \in RetrievalJDWords \cup {245}}

\* chunk_size_words - overlap_words > 0: the window advances
ValidChunking(c) == c.size - c.overlap > 0

InitChunker ==
  /\ NoSessions
  /\ resp \in {Call("_chunk_text", c) : c \in {c \in ChunkerInputs : ValidChunking(c)}}

apply_chunk_text ==
  /\ resp.op = "_chunk_text" /\ resp.code = 0
  /\ resp' = Return("_chunk_text",
                     [text |-> resp.body.text, size |-> resp.body.size,
                      overlap |-> resp.body.overlap,
                      result |-> _chunk_text(resp.body.text, resp.body.size, resp.body.overlap)])
  /\ UNCHANGED <<SESSIONS, RAG_STORE, ext, failed, suspended>>

SpecChunker == InitChunker /\ [][apply_chunk_text]_vars

\* ------------------------------------------------ _chunk_text, step by step
\* words[a:b] of a list of W words: a negative bound counts from the end, and
\* both bounds are clamped to 0..W
SliceBound(W, x) == IF x < 0 THEN (IF W + x < 0 THEN 0 ELSE W + x) ELSE Min(x, W)

Slice(W, a, b) ==
  LET lo == SliceBound(W, a)
      hi == SliceBound(W, b)
  IN <<lo, IF hi < lo THEN lo ELSE hi>>

\* the frame of a call: its arguments, where it stands (entry, loop), the
\* window start i and the chunks appended so far
ChunkerFrame(c) ==
  [text |-> c.text, size |-> c.size, overlap |-> c.overlap,
   pc |-> "entry", i |-> 0, chunks |-> <<>>]

InitChunkerLoop ==
  /\ NoSessions
  /\ resp \in {Call("_chunk_text", ChunkerFrame(c)) : c \in ChunkerInputs}

\* the result of a call that returned
ChunkerReturn(f, result) ==
  Return("_chunk_text",
         [text |-> f.text, size |-> f.size, overlap |-> f.overlap,
          pc |-> "done", i |-> f.i, chunks |-> f.chunks, result |-> result])

\* the lines before the loop: the two early returns, or enter the loop with i = 0
chunk_text_entry ==
  /\ resp.op = "_chunk_text" /\ resp.code = 0 /\ resp.body.pc = "entry"
  /\ \E f \in {resp.body} :
       resp' = IF f.text.empty THEN ChunkerReturn(f, <<>>)
               ELSE IF f.text.words <= f.size
                    THEN ChunkerReturn(f, <<(<<0, f.text.words>>)>>)
               ELSE Call("_chunk_text", [f EXCEPT !.pc = "loop"])
  /\ UNCHANGED <<SESSIONS, RAG_STORE, ext, failed, suspended>>

\* one iteration of the while loop: append words[i:i+size], advance i
chunk_text_window ==
  /\ resp.op = "_chunk_text" /\ resp.code = 0 /\ resp.body.pc = "loop"
  /\ resp.body.i < resp.body.text.words
  /\ Len(resp.body.chunks) < MaxLoopSteps
  /\ \E f \in {resp.body} :
       resp' = Call("_chunk_text",
                    [f EXCEPT !.chunks = Append(@, Slice(f.text.words, f.i, f.i + f.size)),
                              !.i = @ + (f.size - f.overlap)])
  /\ UNCHANGED <<SESSIONS, RAG_STORE, ext, failed, suspended>>

\* the loop condition is false: filter the tiny chunks and return
chunk_text_return ==
  /\ resp.op = "_chunk_text" /\ resp.code = 0 /\ resp.body.pc = "loop"
  /\ ~(resp.body.i < resp.body.text.words)
  /\ resp' = ChunkerReturn(resp.body, SelectSeq(resp.body.chunks, KeepChunk))
  /\ UNCHANGED <<SESSIONS, RAG_STORE, ext, failed, suspended>>

NextChunkerLoop ==
  \/ chunk_text_entry
  \/ chunk_text_window
  \/ chunk_text_return

SpecChunkerLoop == InitChunkerLoop /\ [][NextChunkerLoop]_vars

\* the interpreter keeps running the call: a step that can be taken is taken
FairSpecChunkerLoop == SpecChunkerLoop /\ WF_vars(NextChunkerLoop)

\* model outputs: a word, the question mark, newline, blank, the off-topic marker
ReplyTokens == {"A", "?", "\n", " ", Marker}

ReplyInputs == TextsUpTo(ReplyTokens, MaxReplyLen) \cup {None}

InitParser ==
  /\ NoSessions
  /\ resp \in {Call("parse_llm_two_line_response", [text |-> t]) : t \in ReplyInputs}

\* submit_response steps 6 and 8 on one model output: parse it, flag the
\* evaluation, strip the marker for display
apply_parse_llm_two_line_response ==
  /\ resp.op = "parse_llm_two_line_response" /\ resp.code = 0
  /\ \E parsed \in {parse_llm_two_line_response(resp.body.text)} :
       resp' = Return("parse_llm_two_line_response",
                      [text |-> resp.body.text,
                       evaluation |-> parsed[1],
                       followup_question |-> parsed[2],
                       offtopic |-> IsOffTopic(parsed[1]),
                       displayed |-> DisplayEvaluation(parsed[1])])
  /\ UNCHANGED <<SESSIONS, RAG_STORE, ext, failed, suspended>>

SpecParser == InitParser /\ [][apply_parse_llm_two_line_response]_vars

\* ================================================================ claims
\* the response of a submit that processed a non-empty answer
IsTurn(r) ==
  /\ r.op = "submit" /\ r.code = 200
  /\ "user_text" \in DOMAIN r.body /\ r.body.user_text # EmptyText

\* the response of a submit that transcribed nothing
IsRepeat(r) ==
  /\ r.op = "submit" /\ r.code = 200
  /\ "user_text" \in DOMAIN r.body /\ r.body.user_text = EmptyText

\* the session the last call addressed exists
Addressed(r) == r.sid \in DOMAIN SESSIONS

Budget(session) == compute_max_questions(session.mode)

\* start_session succeeded for this session
Started(session) ==
  Len(session.history) >= 1 /\ session.history[1].speaker = "Interviewer"

\* an interviewer turn that answers an off-topic answer
ReplyOffTopic(text) ==
  text # <<>> /\ IsOffTopic(parse_llm_two_line_response(text)[1])

\* the answers in a history that were replied to and not flagged off-topic
OnTopicAnswers(h) ==
  Cardinality({i \in 1..(Len(h) - 1) :
                 /\ h[i].speaker = "User"
                 /\ h[i+1].speaker = "Interviewer"
                 /\ ~ReplyOffTopic(h[i+1].text)})

\* C1: once a session's status is finished, no later operation (on it or on
\* another session) sets it back to in_progress.
C1_FinishedIsTerminal ==
  [][\A id \in DOMAIN SESSIONS :
       SESSIONS[id].status = "finished"
       => id \in DOMAIN SESSIONS' /\ SESSIONS'[id].status = "finished"]_vars

\* a finished session was just submitted to, while another session is in progress
C1_Witness ==
  /\ resp.op = "submit" /\ resp.code = 200 /\ Addressed(resp)
  /\ "user_text" \notin DOMAIN resp.body
  /\ SESSIONS[resp.sid].status = "finished" /\ Started(SESSIONS[resp.sid])
  /\ \E other \in DOMAIN SESSIONS :
       SESSIONS[other].status = "in_progress" /\ Started(SESSIONS[other])

\* C2: between operations, a finished session has non-null feedback, whether
\* finished by the budget or by end, and also when the completion service failed.
C2_FinishedHasFeedback ==
  \A id \in DOMAIN SESSIONS :
    SESSIONS[id].status = "finished" => SESSIONS[id].feedback # None

\* a submit reached the budget while the completion service failed on the feedback
C2_Witness ==
  /\ IsTurn(resp) /\ resp.body.feedback_ready
  /\ SESSIONS[resp.sid].status = "finished" /\ Started(SESSIONS[resp.sid])
  /\ SESSIONS[resp.sid].feedback = FeedbackFailed

\* C3: an off-topic submit on an in-progress session never increments
\* questions_asked and never finishes the session, whatever the mode.
C3_OffTopicStaysInProgress ==
  [][\A id \in DOMAIN SESSIONS :
       (/\ IsTurn(resp') /\ resp'.sid = id /\ resp'.body.offtopic
        /\ Started(SESSIONS[id])
        /\ SESSIONS[id].status = "in_progress")
       => /\ SESSIONS'[id].questions_asked = SESSIONS[id].questions_asked
          /\ SESSIONS'[id].status = "in_progress"]_vars

\* C4: an on-topic submit with non-empty text on an in-progress session appends
\* one User turn then one Interviewer turn, adds exactly 1 to questions_asked,
\* sets the current question to the parsed follow-up (the follow-up the response
\* reports), and finishes the session, with feedback generated in the same
\* call, exactly when the new count is >= max_questions(mode).
C4_OnTopicTurn ==
  [][\A id \in DOMAIN SESSIONS :
       (/\ IsTurn(resp') /\ resp'.sid = id /\ ~resp'.body.offtopic
        /\ SESSIONS[id].status = "in_progress")
       => LET s == SESSIONS[id]
              t == SESSIONS'[id]
              r == resp'.body
          IN /\ t.history = s.history \o <<Turn("User", r.user_text),
                                           Turn("Interviewer", r.full_response)>>
             /\ t.questions_asked = s.questions_asked + 1
             /\ t.current_question = r.followup_question
             /\ r.full_response # <<>>
                  => t.current_question = parse_llm_two_line_response(r.full_response)[2]
             /\ r.full_response = <<>> => t.current_question = None
             /\ t.mode = s.mode
             /\ (t.status = "finished") <=> (t.questions_asked >= Budget(s))
             /\ t.status = "finished"
                  => /\ t.feedback # None
                     /\ r.feedback_ready /\ r.feedback = t.feedback
                     /\ ext'[Len(ext')] = "llm"
             /\ t.status # "finished"
                  => /\ t.status = "in_progress" /\ t.feedback = s.feedback
                     /\ ~r.feedback_ready]_vars

\* an on-topic answer finished a session that had already answered before
C4_Witness ==
  /\ IsTurn(resp) /\ ~resp.body.offtopic /\ resp.body.feedback_ready
  /\ SESSIONS[resp.sid].status = "finished"
  /\ Len(SESSIONS[resp.sid].history) = 5

C6_EmptyAnswerChangesNothing ==
  [][\A id \in DOMAIN SESSIONS :
       (/\ IsRepeat(resp') /\ resp'.sid = id
        /\ SESSIONS[id].status = "in_progress")
       => /\ SESSIONS' = SESSIONS
          /\ RAG_STORE' = RAG_STORE
          /\ resp'.body.followup_question = RepeatRequest
          /\ resp'.body.current_q_count = SESSIONS[id].questions_asked
          /\ resp'.body.new_question = DictGet(SESSIONS[id].current_question, EmptyText)
          /\ resp'.body.feedback_ready = FALSE
          /\ "feedback" \notin DOMAIN resp'.body]_vars

\* nothing was heard from a session that had already answered one question
C6_Witness ==
  /\ IsRepeat(resp) /\ Addressed(resp)
  /\ Started(SESSIONS[resp.sid])
  /\ SESSIONS[resp.sid].status = "in_progress"
  /\ SESSIONS[resp.sid].questions_asked = 2
  /\ resp.body.current_q_count = 2
  /\ resp.body.new_question = SESSIONS[resp.sid].current_question

\* C7: end on any existing session, whatever its count and history, leaves it
\* finished with non-null feedback; a call that generated feedback returns it.
C7_EndFinishes ==
  [][\A id \in DOMAIN SESSIONS :
       (resp'.op = "end" /\ resp'.sid = id)
       => /\ resp'.code = 200
          /\ SESSIONS'[id].status = "finished"
          /\ SESSIONS'[id].feedback # None
          /\ SESSIONS'[id].history = SESSIONS[id].history
          /\ SESSIONS'[id].questions_asked = SESSIONS[id].questions_asked
          /\ ext' # <<>>
               => /\ "feedback" \in DOMAIN resp'.body
                  /\ resp'.body.feedback = SESSIONS'[id].feedback]_vars

\* end generated the feedback of a session that had answered nothing
C7_Witness ==
  /\ resp.op = "end" /\ resp.code = 200 /\ ext = <<"llm">>
  /\ Started(SESSIONS[resp.sid])
  /\ Len(SESSIONS[resp.sid].history) = 1
  /\ SESSIONS[resp.sid].questions_asked = 1
  /\ SESSIONS[resp.sid].status = "finished"
  /\ resp.body.feedback = SESSIONS[resp.sid].feedback

\* C8: end on a started, finished session that has feedback, whatever value
\* the first generation produced, changes nothing and calls no completion.
C8_EndTwiceIsNoOp ==
  [][\A id \in DOMAIN SESSIONS :
       (/\ resp'.op = "end" /\ resp'.sid = id
        /\ Started(SESSIONS[id])
        /\ SESSIONS[id].status = "finished"
        /\ SESSIONS[id].feedback # None)
       => /\ SESSIONS' = SESSIONS
          /\ ext' = <<>>]_vars

\* C9: when end is called twice on a session, the second response returns the
\* same feedback text as the first.
C9_SecondEndReturnsSameFeedback ==
  [][(/\ resp.op = "end" /\ resp.code = 200
      /\ resp'.op = "end" /\ resp'.sid = resp.sid
      /\ Started(SESSIONS[resp.sid])
      /\ "feedback" \in DOMAIN resp.body)
     => /\ "feedback" \in DOMAIN resp'.body
        /\ resp'.body.feedback = resp.body.feedback]_vars

\* C10: a successful start registers a new session under a fresh identifier,
\* in progress, with count 1, a history of the first question alone, that
\* question as the current one and no feedback, and reports them.
C10_StartCreatesSession ==
  [][(resp'.op = "start" /\ resp'.code = 200)
     => LET id == resp'.sid
            t == SESSIONS'[id]
            q == resp'.body.first_question
        IN /\ id \notin DOMAIN SESSIONS
           /\ DOMAIN SESSIONS' = DOMAIN SESSIONS \cup {id}
           /\ \A other \in DOMAIN SESSIONS : SESSIONS'[other] = SESSIONS[other]
           /\ t.status = "in_progress"
           /\ t.questions_asked = 1
           /\ t.history = <<Turn("Interviewer", q)>>
           /\ t.current_question = q
           /\ t.feedback = None
           /\ resp'.body.session_id = id
           /\ resp'.body.status = "in_progress"
           /\ resp'.body.current_q_count = 1]_vars

\* a second session was started while the first goes on
C10_Witness ==
  /\ resp.op = "start" /\ resp.code = 200
  /\ Cardinality(DOMAIN SESSIONS) = 2
  /\ \A id \in DOMAIN SESSIONS : Started(SESSIONS[id])
  /\ SESSIONS[resp.sid].questions_asked = 1
  /\ Len(SESSIONS[resp.sid].history) = 1

\* C11: when the completion service fails during a non-empty submit on an
\* in-progress session, the call answers 200 with the fixed evaluation text and
\* a follow-up drawn from the fallback list; the User and Interviewer turns are
\* appended, the current question is that fallback, and the turn counts as
\* on-topic (questions_asked advances by 1).
C11_CompletionFailureFallsBack ==
  [][\A id \in DOMAIN SESSIONS :
       (/\ resp'.op = "submit" /\ resp'.sid = id
        /\ Contains(failed', "llm")
        /\ SESSIONS[id].status = "in_progress")
       => LET s == SESSIONS[id]
              t == SESSIONS'[id]
              r == resp'.body
          IN /\ resp'.code = 200
             /\ r.user_text # EmptyText
             /\ r.evaluation = FallbackEvaluation
             /\ \E i \in 1..Len(FALLBACKS) : r.followup_question = FALLBACKS[i]
             /\ ~r.feedback_ready => r.new_question = r.followup_question
             /\ r.full_response = r.evaluation \o <<"\n">> \o r.followup_question
             /\ r.offtopic = FALSE
             /\ t.history = s.history \o <<Turn("User", r.user_text),
                                           Turn("Interviewer", r.full_response)>>
             /\ t.current_question = r.followup_question
             /\ t.questions_asked = s.questions_asked + 1
             /\ r.current_q_count = t.questions_asked]_vars

\* the completion failed on the answer to the first question and the session goes on
C11_Witness ==
  /\ IsTurn(resp) /\ Contains(failed, "llm")
  /\ Started(SESSIONS[resp.sid])
  /\ SESSIONS[resp.sid].status = "in_progress"
  /\ SESSIONS[resp.sid].questions_asked = 2
  /\ SESSIONS[resp.sid].current_question = FALLBACKS[2]

\* C12: when the embedding service fails during a non-empty submit on a started,
\* in-progress session (at the retrieval query or at confidence scoring), the
\* call still answers with a next question, and the history holds either both
\* turns of that answer or neither.
C12_EmbeddingFailureKeepsTurnWhole ==
  [][\A id \in DOMAIN SESSIONS :
       (/\ resp'.op = "submit" /\ resp'.sid = id
        /\ (Contains(failed', "embed_query") \/ Contains(failed', "embed_confidence"))
        /\ Started(SESSIONS[id])
        /\ SESSIONS[id].status = "in_progress")
       => LET s == SESSIONS[id]
              t == SESSIONS'[id]
          IN /\ resp'.code = 200
             /\ "followup_question" \in DOMAIN resp'.body
             /\ \/ t.history = s.history
                \/ /\ Len(t.history) = Len(s.history) + 2
                   /\ SubSeq(t.history, 1, Len(s.history)) = s.history
                   /\ t.history[Len(s.history) + 1].speaker = "User"
                   /\ t.history[Len(s.history) + 2].speaker = "Interviewer"]_vars

\* C13: submit, end and get_feedback called with an identifier that is not in
\* the session table each answer not-found, create no session, call no service
\* and leave the session table and the retrieval store unchanged.
C13_UnknownIdIsNotFound ==
  [][(/\ resp'.op \in {"submit", "end", "get_feedback"}
      /\ resp'.sid \notin DOMAIN SESSIONS)
     => /\ resp'.code = 404
        /\ SESSIONS' = SESSIONS
        /\ RAG_STORE' = RAG_STORE
        /\ ext' = <<>>]_vars

\* an answer was submitted under an unknown identifier while a session is in progress
C13_Witness ==
  /\ resp.op = "submit" /\ resp.code = 404
  /\ resp.sid \notin DOMAIN SESSIONS
  /\ \E id \in DOMAIN SESSIONS :
       Started(SESSIONS[id]) /\ SESSIONS[id].status = "in_progress"

\* the tokens between the first separator of a mode and the next one
SuffixAfterFirstPipe(mode) ==
  LET p == CHOOSE i \in 1..Len(mode) : mode[i] = "|" /\ \A j \in 1..(i-1) : mode[j] # "|"
      stops == {i \in (p+1)..Len(mode) : mode[i] = "|"} \cup {Len(mode) + 1}
      q == CHOOSE i \in stops : \A j \in stops : i <= j
  IN SubSeq(mode, p + 1, q - 1)

\* C14: max_questions(mode) is 6 for a mode containing Quick, else 12 for
\* Detailed, else 20 for Long (a tier name wins over a number: Quick|10 gives 6);
\* otherwise the integer after the first pipe (Custom|7 gives 7); and 12 for an
\* empty mode, a mode without pipe, or a suffix that is not an integer.
C14_BudgetOfMode ==
  (resp.op = "compute_max_questions" /\ resp.code = 200)
  => LET mode == resp.body.mode
         result == resp.body.result
         has(name) == \E i \in 1..Len(mode) : mode[i] = name
     IN /\ (mode = None \/ mode = <<>>) => result = 12
        /\ (mode # None /\ has("Quick")) => result = 6
        /\ (mode # None /\ ~has("Quick") /\ has("Detailed")) => result = 12
        /\ (mode # None /\ ~has("Quick") /\ ~has("Detailed") /\ has("Long")) => result = 20
        /\ (mode # None /\ ~has("Quick") /\ ~has("Detailed") /\ ~has("Long"))
             => /\ ~has("|") => result = 12
                /\ (has("|") /\ IntOk(SuffixAfterFirstPipe(mode)))
                     => result = IntValue(SuffixAfterFirstPipe(mode))
                /\ (has("|") /\ ~IntOk(SuffixAfterFirstPipe(mode))) => result = 12
        /\ mode = <<"Quick", "|", "1", "0">> => result = 6
        /\ mode = <<"Custom", "|", "7">> => result = 7
        /\ mode = <<"Custom", "|", "x">> => result = 12
        /\ mode = <<"Custom", "|", "1", "0">> => result = 10

\* a named tier with an embedded number was given its tier budget
C14_Witness ==
  /\ resp.op = "compute_max_questions" /\ resp.code = 200
  /\ resp.body.mode = <<"Quick", "|", "1", "0">>
  /\ resp.body.result = 6

\* C15: sessions are independent: whatever the interleaving, an operation on
\* one session never changes another session's history, questions_asked,
\* status, current question, feedback, mode or retrieval-store entry, nor
\* removes it.
C15_SessionsIndependent ==
  [][\A other \in DOMAIN SESSIONS :
       other # resp'.sid
       => /\ other \in DOMAIN SESSIONS'
          /\ SESSIONS'[other] = SESSIONS[other]
          /\ other \in DOMAIN RAG_STORE'
          /\ RAG_STORE'[other] = RAG_STORE[other]]_vars

\* an answer to one session was processed after the other session was answered
C15_Witness ==
  /\ IsTurn(resp)
  /\ Len(SESSIONS[resp.sid].history) = 3
  /\ \E other \in DOMAIN SESSIONS :
       /\ other # resp.sid
       /\ Started(SESSIONS[other])
       /\ SESSIONS[other].status = "finished"
       /\ RAG_STORE[other] # RAG_STORE[resp.sid]

C17_MarkerStrippedForDisplay ==
  (resp.op = "parse_llm_two_line_response" /\ resp.code = 200)
  => LET evaluation == resp.body.evaluation
         starts == Len(evaluation) > 0 /\ evaluation[1] = Marker
     IN /\ resp.body.offtopic <=> starts
        /\ starts => resp.body.displayed = Strip(Tail(evaluation))
        /\ ~starts => resp.body.displayed = evaluation

\* C18: a query that returns gives exactly min(top_k, number of chunks) chunks,
\* each a stored chunk, none twice, nearest first by squared Euclidean distance
\* to the query vector, and no chunk left out is nearer than one returned; for
\* an entry with zero chunks and for a session without entry it gives the empty
\* sequence, without error and without calling the embedding service.
C18_QueryReturnsNearestChunks ==
  (resp.op = "query_rag" /\ resp.code # 0)
  => LET has == "s1" \in DOMAIN RAG_STORE
         chunks == IF has THEN RAG_STORE["s1"].chunks ELSE <<>>
         vecs == IF has THEN RAG_STORE["s1"].vecs ELSE <<>>
         n == Len(chunks)
         d(c) == LET i == CHOOSE i \in 1..n : chunks[i] = c
                 IN (resp.body.q - vecs[i]) * (resp.body.q - vecs[i])
     IN /\ n = 0 => /\ resp.code = 200 /\ resp.body.result = <<>>
                    /\ ext = <<>> /\ failed = <<>>
        /\ resp.code = 200
             => LET out == resp.body.result
                    k == resp.body.top_k
                IN /\ Len(out) = (IF k <= n THEN k ELSE n)
                   /\ \A a \in 1..Len(out) : \E i \in 1..n : chunks[i] = out[a]
                   /\ \A a, b \in 1..Len(out) : a < b => out[a] # out[b] /\ d(out[a]) <= d(out[b])
                   /\ \A i \in 1..n :
                        (\A a \in 1..Len(out) : out[a] # chunks[i])
                        => \A a \in 1..Len(out) : d(out[a]) <= d(chunks[i])

\* three of four chunks were returned, the last stored chunk first
C18_Witness ==
  /\ resp.op = "query_rag" /\ resp.code = 200
  /\ "s1" \in DOMAIN RAG_STORE
  /\ Len(RAG_STORE["s1"].chunks) = 4
  /\ resp.body.top_k = 3
  /\ Len(resp.body.result) = 3
  /\ resp.body.result[1] = RAG_STORE["s1"].chunks[4]
  /\ resp.body.result[3] # RAG_STORE["s1"].chunks[1]

\* the words of all chunks together
RECURSIVE WordsIn(_)
WordsIn(chunks) ==
  IF chunks = <<>> THEN 0 ELSE (chunks[1][2] - chunks[1][1]) + WordsIn(Tail(chunks))

\* every word position of a text of W words lies in a chunk
Covers(chunks, W) ==
  \A p \in 0..(W - 1) : \E n \in 1..Len(chunks) : chunks[n][1] <= p /\ p < chunks[n][2]

\* C19 as stated: for every text of W words, every chunk size C and overlap
\* with C >= overlap + 1, the chunks' word counts sum to at least W and every
\* word position lies in a returned chunk.
C19_NoWordLost ==
  (resp.op = "_chunk_text" /\ resp.code = 200)
  => /\ WordsIn(resp.body.result) >= resp.body.text.words
     /\ Covers(resp.body.result, resp.body.text.words)

\* C19 (amended): no word is lost when the text fits one chunk (W <= C) or the
\* overlap is at least 10 words, the size of the largest discarded chunk.
C19_NoWordLostWhenOverlapCoversTail ==
  (/\ resp.op = "_chunk_text" /\ resp.code = 200
   /\ \/ resp.body.text.words <= resp.body.size
      \/ resp.body.overlap >= 10)
  => /\ WordsIn(resp.body.result) >= resp.body.text.words
     /\ Covers(resp.body.result, resp.body.text.words)

\* a tail window of at most 10 words was discarded and all its words are in
\* the chunks before it
C19_Witness ==
  /\ resp.op = "_chunk_text" /\ resp.code = 200
  /\ resp.body.text.words > resp.body.size
  /\ resp.body.overlap >= 10
  /\ resp.body.result # <<>>
  /\ \E i \in 1..(resp.body.text.words - 1) :
       /\ i % (resp.body.size - resp.body.overlap) = 0
       /\ resp.body.text.words - i <= 10
       /\ \A n \in 1..Len(resp.body.result) : resp.body.result[n][1] # i
  /\ Covers(resp.body.result, resp.body.text.words)

ChunkerCall == resp.body

\* size - overlap <= 0 with more words than the size: the window cannot advance
StuckConfiguration(f) == f.size - f.overlap <= 0 /\ f.text.words > f.size

\* ceil(W / d), d > 0
CeilDiv(W, d) == (W + d - 1) \div d

\* C21, bound: with size minus overlap > 0 the loop runs at most
\* ceil(W / (size - overlap)) window steps, and each step moves the window forward.
C21_WindowStepsBounded ==
  /\ (resp.op = "_chunk_text" /\ ChunkerCall.size - ChunkerCall.overlap > 0)
     => Len(ChunkerCall.chunks)
          <= CeilDiv(ChunkerCall.text.words, ChunkerCall.size - ChunkerCall.overlap)
  /\ (resp.op = "_chunk_text" /\ ChunkerCall.size - ChunkerCall.overlap > 0
      /\ ChunkerCall.pc = "done" /\ ChunkerCall.text.words > ChunkerCall.size)
     => Len(ChunkerCall.chunks)
          = CeilDiv(ChunkerCall.text.words, ChunkerCall.size - ChunkerCall.overlap)

\* C21, termination for the configurations that advance: the call returns
C21_AdvancingCallReturns ==
  (resp.op = "_chunk_text" /\ ChunkerCall.size - ChunkerCall.overlap > 0)
  ~> (resp.op = "_chunk_text" /\ resp.code = 200)

\* the step-by-step loop returns what _chunk_text returns
C21_LoopAgreesWithChunkText ==
  (resp.op = "_chunk_text" /\ resp.code = 200 /\ ValidChunking(ChunkerCall))
  => ChunkerCall.result = _chunk_text(ChunkerCall.text, ChunkerCall.size, ChunkerCall.overlap)

\* C21: the chunker terminates on every input: every call ends, returned or
\* rejected; a call whose size minus overlap is <= 0 on a text longer than the
\* size is rejected instead of looping; every window step moves the window
\* forward; with size minus overlap > 0 the loop takes at most
\* ceil(W / (size - overlap)) window steps.
C21_ChunkerTerminates ==
  /\ (resp.op = "_chunk_text" /\ resp.code = 0)
       ~> (resp.op = "_chunk_text" /\ resp.code \in {200, 400})
  /\ [][(resp.op = "_chunk_text" /\ resp.code = 0 /\ StuckConfiguration(ChunkerCall))
        => resp'.code = 400]_vars
  /\ [][(resp.op = "_chunk_text" /\ ChunkerCall.pc = "loop" /\ resp'.body.pc = "loop")
        => resp'.body.i > ChunkerCall.i]_vars
  /\ []((resp.op = "_chunk_text" /\ ChunkerCall.size - ChunkerCall.overlap > 0)
        => Len(ChunkerCall.chunks)
             <= CeilDiv(ChunkerCall.text.words, ChunkerCall.size - ChunkerCall.overlap))

\* a stuck call has run more window steps than the text has words, its window
\* start not past the first word, and the loop condition still holds
C21_LoopStillRunning ==
  /\ resp.op = "_chunk_text" /\ resp.code = 0 /\ ChunkerCall.pc = "loop"
  /\ StuckConfiguration(ChunkerCall)
  /\ Len(ChunkerCall.chunks) > ChunkerCall.text.words
  /\ ChunkerCall.i <= 0
  /\ ChunkerCall.i < ChunkerCall.text.words

\* C22: a submit on a session that is already finished (calls made one at a
\* time) changes nothing in the session table or the retrieval store, calls no
\* transcription, retrieval or completion service, and answers feedback_ready
\* true with the stored feedback.
C22_SubmitOnFinishedChangesNothing ==
  [][\A id \in DOMAIN SESSIONS :
       (/\ resp'.op = "submit" /\ resp'.sid = id
        /\ SESSIONS[id].status = "finished")
       => /\ SESSIONS' = SESSIONS
          /\ RAG_STORE' = RAG_STORE
          /\ ext' = <<>>
          /\ failed' = <<>>
          /\ resp'.code = 200
          /\ DOMAIN resp'.body = {"feedback_ready", "feedback"}
          /\ resp'.body.feedback_ready = TRUE
          /\ resp'.body.feedback = SESSIONS[id].feedback]_vars

\* an answer was submitted to a session that its second answer had finished,
\* and the stored feedback came back
C22_Witness ==
  /\ resp.op = "submit" /\ resp.code = 200 /\ Addressed(resp)
  /\ "user_text" \notin DOMAIN resp.body
  /\ ext = <<>>
  /\ SESSIONS[resp.sid].status = "finished"
  /\ Started(SESSIONS[resp.sid])
  /\ Len(SESSIONS[resp.sid].history) = 5
  /\ SESSIONS[resp.sid].questions_asked = 3
  /\ Truthy(SESSIONS[resp.sid].feedback)
  /\ resp.body.feedback = SESSIONS[resp.sid].feedback

\* C23: every session in the session table between operations is well-formed:
\* questions_asked >= 1, the history is non-empty and starts with an
\* Interviewer turn, and a current question is set; a start whose completion
\* call fails answers a request failure and leaves no session with
\* questions_asked = 0 and an empty history registered.
C23_SessionsWellFormed ==
  /\ \A id \in DOMAIN SESSIONS :
       /\ SESSIONS[id].questions_asked >= 1
       /\ SESSIONS[id].history # <<>>
       /\ SESSIONS[id].history[1].speaker = "Interviewer"
       /\ SESSIONS[id].current_question # NoKey
  /\ (resp.op = "start" /\ Contains(failed, "llm")) => resp.code = 500

\* the completion call of a start failed: the caller got a request failure and
\* the session stays registered, in progress, with no question asked
C23_FailedStartStaysRegistered ==
  /\ resp.op = "start" /\ resp.code = 500 /\ Contains(failed, "llm")
  /\ Addressed(resp)
  /\ SESSIONS[resp.sid].status = "in_progress"
  /\ SESSIONS[resp.sid].questions_asked = 0
  /\ SESSIONS[resp.sid].history = <<>>
  /\ SESSIONS[resp.sid].current_question = NoKey

\* C24: in every reachable state of a started session driven by start, submit
\* and end calls made one at a time, questions_asked never exceeds the turn
\* budget max_questions(mode), for every mode, those with suffix 1, 0 or a
\* negative number included.
C24_CountWithinBudget ==
  \A id \in DOMAIN SESSIONS :
    Started(SESSIONS[id]) => SESSIONS[id].questions_asked <= Budget(SESSIONS[id])

\* a session with budget 1 was finished by its first on-topic answer with
\* questions_asked = 2
C24_CountOverBudget ==
  /\ IsTurn(resp) /\ ~resp.body.offtopic /\ resp.body.feedback_ready
  /\ Started(SESSIONS[resp.sid])
  /\ Budget(SESSIONS[resp.sid]) = 1
  /\ SESSIONS[resp.sid].questions_asked = 2
  /\ SESSIONS[resp.sid].status = "finished"

\* the count stays within the budget when the budget is at least 2
C24_CountWithinBudgetOfTwoOrMore ==
  \A id \in DOMAIN SESSIONS :
    (Started(SESSIONS[id]) /\ Budget(SESSIONS[id]) >= 2)
    => SESSIONS[id].questions_asked <= Budget(SESSIONS[id])

\* C25: if non-empty, on-topic answers keep being submitted one at a time to a
\* started, in-progress session, the session eventually is finished, whether the
\* completion and embedding services succeed or fail; every such answer brings
\* it nearer: it finishes the session or advances questions_asked, so only
\* off-topic or empty answers can keep a session in progress forever.
C25_AnswersFinishTheSession ==
  /\ \A id \in SessionIds :
       (id \in DOMAIN SESSIONS /\ Started(SESSIONS[id]) /\ SESSIONS[id].status = "in_progress")
       ~> (id \in DOMAIN SESSIONS /\ SESSIONS[id].status = "finished")
  /\ [][\A id \in DOMAIN SESSIONS :
          (/\ resp'.op = "submit" /\ resp'.sid = id
           /\ Started(SESSIONS[id]) /\ SESSIONS[id].status = "in_progress")
          => \/ SESSIONS'[id].status = "finished"
             \/ SESSIONS'[id].questions_asked > SESSIONS[id].questions_asked]_vars

\* an answer was submitted while the embedding service failed on the retrieval
\* query: the session is still in progress with the count it had
C25_AnswerWithoutProgress ==
  /\ resp.op = "submit" /\ resp.code = 500 /\ failed = <<"embed_query">>
  /\ Started(SESSIONS[resp.sid])
  /\ SESSIONS[resp.sid].status = "in_progress"
  /\ SESSIONS[resp.sid].questions_asked = 1
  /\ Len(SESSIONS[resp.sid].history) = 3
  /\ SESSIONS[resp.sid].history[2].speaker = "User"
  /\ SESSIONS[resp.sid].history[3].speaker = "User"

\* the session is finished when its retrieval index is empty, so that no
\* answer needs the embedding service before the completion call
C25_FinishesWhenIndexIsEmpty ==
  \A id \in SessionIds :
    (/\ id \in DOMAIN SESSIONS /\ Started(SESSIONS[id])
     /\ SESSIONS[id].status = "in_progress"
     /\ ~QueryEmbeds(RAG_STORE[id]))
    ~> (id \in DOMAIN SESSIONS /\ SESSIONS[id].status = "finished")

\* a submit_response call of this session goes on from the await in this step
ResumedFor(id) ==
  /\ id \in DOMAIN suspended
  /\ id \in DOMAIN suspended' => suspended'[id] < suspended[id]

\* C26: when submit calls for the same session overlap (each passed the
\* finished test and waits at the transcription await before the other applies
\* its update), a call that goes on after the session became finished appends
\* no turn, leaves questions_asked and the feedback as they are and generates
\* no feedback.
C26_OverlappingSubmitsKeepFinished ==
  [][\A id \in DOMAIN SESSIONS :
       (/\ ResumedFor(id)
        /\ Started(SESSIONS[id])
        /\ SESSIONS[id].status = "finished")
       => /\ SESSIONS'[id].history = SESSIONS[id].history
          /\ SESSIONS'[id].questions_asked = SESSIONS[id].questions_asked
          /\ SESSIONS'[id].feedback = SESSIONS[id].feedback
          /\ SESSIONS'[id].status = "finished"
          /\ ~Contains(ext', "llm")]_vars

\* of two overlapping calls on a session with budget 2, the first finished the
\* session and the second added two more turns, counted a third question and
\* generated the feedback again
C26_TurnAfterFinished ==
  /\ IsTurn(resp) /\ resp.body.feedback_ready
  /\ suspended = <<>>
  /\ Started(SESSIONS[resp.sid])
  /\ SESSIONS[resp.sid].status = "finished"
  /\ Budget(SESSIONS[resp.sid]) = 2
  /\ SESSIONS[resp.sid].questions_asked = 3
  /\ Len(SESSIONS[resp.sid].history) = 5
  /\ ext[Len(ext)] = "llm"

====
